---- MODULE Spec2Model ----
(***************************************************************************)
(* ImageCrateLoader (egui_extras/src/loaders/image_loader.rs): a cache of  *)
(* decoded images keyed by URI, filled from a byte source that is polled,  *)
(* guarded by one mutex.                                                   *)
(***************************************************************************)
EXTENDS Integers, Sequences, FiniteSets, TLC

\* ------------------------------------------------------------------ bounds
\* the largest number of "#<frame index>" suffixes a URI handed to the loader carries
MaxFrameSuffix == 2

\* ------------------------------------------------------- program constants
\* size_of::<egui::Color32>()
SizeOfColor32 == 4

\* --------------------------------------------------------------- options
None == [some |-> FALSE]
Some(v) == [some |-> TRUE, v |-> v]

\* ------------------------------------------------------------------ URIs
\* A URI string is scheme ++ "test" ++ ("." ++ ext, when ext # "") ++ one "#<i>" for
\* each element of frames.
FrameIndices == {0}
UriBases ==
    {[scheme |-> "file://", ext |-> "png"], [scheme |-> "file://", ext |-> "svg"],
     [scheme |-> "https://", ext |-> "svg"]}

RECURSIVE SeqsUpTo(_, _)
SeqsUpTo(S, n) ==
    IF n = 0 THEN {<<>>}
    ELSE LET shorter == SeqsUpTo(S, n - 1)
         IN  shorter \cup {Append(s, x) : s \in shorter, x \in S}

Uris ==
    {[scheme |-> b.scheme, ext |-> b.ext, frames |-> f] :
        b \in UriBases, f \in SeqsUpTo(FrameIndices, MaxFrameSuffix)}

\* uri.starts_with("file://")
StartsWithFile(uri) == uri.scheme = "file://"

\* egui::decode_animated_image_uri: split at the last '#', the rest must parse as an index
decode_animated_image_uri(uri) ==
    IF uri.frames = <<>> THEN None
    ELSE Some([uri |-> [uri EXCEPT !.frames = SubSeq(uri.frames, 1, Len(uri.frames) - 1)],
               frame_index |-> uri.frames[Len(uri.frames)]])

\* mutant of NormalizeUri: the URI is used as given, frame index included
NormalizeUri_KeepsFrameIndex(uri) == uri

\* decode_animated_image_uri(uri).map_or(uri, |(uri, _frame_index)| uri)
NormalizeUri(uri) ==
    LET d == decode_animated_image_uri(uri)
    IN  IF d.some THEN d.v.uri ELSE uri

\* ------------------------------------------------------------ FormatGate
\* str::to_lowercase on the extensions and the formats of the model
ToLowercase(s) ==
    CASE s = "PNG" -> "png"
      [] s = "JPEG" -> "jpeg"
      [] s = "GIF" -> "gif"
      [] s = "SVG" -> "svg"
      [] OTHER -> s

\* image::ImageFormat::from_extension, on the extensions of the model
FromExtension(ext) ==
    CASE ext = "png" -> Some("Png")
      [] ext = "jpeg" -> Some("Jpeg")
      [] ext = "jpg" -> Some("Jpeg")
      [] ext = "gif" -> Some("Gif")
      [] ext = "avif" -> Some("Avif")
      [] OTHER -> None

\* image::ImageFormat::from_mime_type: an exact match of the whole string
FromMimeType(mime) ==
    CASE mime = <<"image/png">> -> Some("Png")
      [] mime = <<"image/jpeg">> -> Some("Jpeg")
      [] mime = <<"image/gif">> -> Some("Gif")
      [] mime = <<"image/avif">> -> Some("Avif")
      [] OTHER -> None

\* ImageFormat::reading_enabled with the image crate features the tests are built with
ReadingEnabled(format) == format \in {"Png", "Jpeg", "Gif"}

\* Path::new(uri).extension(): the text after the last '.' of the last path component,
\* frame suffixes included
Extension(uri) ==
    IF uri.ext = "" THEN None ELSE Some([name |-> uri.ext, frames |-> uri.frames])

\* mutant of is_supported_uri: an extension that names no format counts as supported
is_supported_uri_UnknownSupported(uri) ==
    LET ext == Extension(uri)
    IN  IF ~ext.some THEN TRUE
        ELSE LET format == IF ext.v.frames = <<>>
                           THEN FromExtension(ToLowercase(ext.v.name))
                           ELSE None
             IN  ~format.some \/ ReadingEnabled(format.v)

\* mutant of is_supported_uri: the extension is looked up as written, not lower-cased
is_supported_uri_CaseSensitive(uri) ==
    LET ext == Extension(uri)
    IN  IF ~ext.some THEN TRUE
        ELSE LET format == IF ext.v.frames = <<>>
                           THEN FromExtension(ext.v.name)
                           ELSE None
             IN  format.some /\ ReadingEnabled(format.v)

is_supported_uri(uri) ==
    LET ext == Extension(uri)
    IN  IF ~ext.some THEN TRUE
        ELSE LET format == IF ext.v.frames = <<>>
                           THEN FromExtension(ToLowercase(ext.v.name))
                           ELSE None
             IN  format.some /\ ReadingEnabled(format.v)

\* A MIME string is a sequence of parts: the type, then appended parameters.
mimes_to_defer ==
    {"application/octet-stream", "application/x-msdownload", "application/force-download"}

\* mime.contains(m)
Contains(mime, m) == \E i \in 1..Len(mime) : mime[i] = m

\* mutant of is_supported_mime: the deferred types are matched by equality
is_supported_mime_ExactMatch(mime) ==
    IF \E m \in mimes_to_defer : mime = <<m>> THEN TRUE
    ELSE LET format == FromMimeType(mime)
         IN  format.some /\ ReadingEnabled(format.v)

is_supported_mime(mime) ==
    IF \E m \in mimes_to_defer : Contains(mime, m) THEN TRUE
    ELSE LET format == FromMimeType(mime)
         IN  format.some /\ ReadingEnabled(format.v)

\* ------------------------------------------------------- results and errors
\* Result<T, LoadError>
Ok(v) == [ok |-> TRUE, v |-> v]
Err(e) == [ok |-> FALSE, err |-> e]

\* egui::load::LoadError
NotSupported == [kind |-> "NotSupported"]
FormatNotSupported(detected_format) ==
    [kind |-> "FormatNotSupported", detected_format |-> detected_format]
Loading(msg) == [kind |-> "Loading", msg |-> msg]

\* ImagePoll
ImageReady(image) == [kind |-> "Ready", image |-> image]
ImagePending(size) == [kind |-> "Pending", size |-> size]

\* ------------------------------------------------------- the byte source
\* A byte buffer is a sequence of chunks.
LfsMarker == "version https://git-lfs"
ByteBuffers == {<<LfsMarker, "IMG">>, <<"IMG">>, <<"IMG", "IMG">>, <<"JUNK">>}

Mimes ==
    {None, Some(<<"image/png">>), Some(<<"image/svg+xml">>),
     Some(<<"application/octet-stream", "; charset=binary">>),
     Some(<<"application/x-msdownload">>), Some(<<"application/force-download">>)}

SizeHints == {None, Some(16)}

\* the errors the byte source reports
SourceErrors == {Loading("bytes: connection reset")}

\* what ctx.try_load_bytes(uri) can answer: Result<BytesPoll, LoadError>
BytesAnswers ==
    {Ok([kind |-> "Ready", bytes |-> b, mime |-> m]) : b \in ByteBuffers, m \in Mimes}
    \cup {Ok([kind |-> "Pending", size |-> s]) : s \in SizeHints}
    \cup {Err(e) : e \in SourceErrors}

\* bytes.starts_with(b"version https://git-lfs")
StartsWithLfs(bytes) == Len(bytes) >= 1 /\ bytes[1] = LfsMarker

\* crate::image::load_image_bytes: the decode function
load_image_bytes(bytes) ==
    IF bytes # <<>> /\ \A i \in 1..Len(bytes) : bytes[i] = "IMG"
    THEN Ok([pixels |-> Len(bytes)])
    ELSE Err(Loading("failed to decode"))

\* ------------------------------------------------------------- the cache
\* HashMap<String, Entry>, Entry = Result<Arc<ColorImage>, LoadError>
EmptyCache == [k \in {} |-> None]
Insert(c, k, v) == [x \in DOMAIN c \cup {k} |-> IF x = k THEN v ELSE c[x]]
Remove(c, k) == [x \in DOMAIN c \ {k} |-> c[x]]

VARIABLES
    cache,    \* ImageCrateLoader.cache
    before,   \* the cache as the last call found it
    last,     \* the last call: operation, argument, calls it made, what it returned
    lock,     \* the thread that holds the cache mutex, or NoThread
    th,       \* for each thread: where it is in its call, and the call's locals
    decodes   \* for each cache key: the decode calls made for it since it was last evicted

vars == <<cache, before, last, lock, th, decodes>>
concvars == <<lock, th, decodes>>

\* what one call does: the cache it leaves, the URIs it polled the byte source with,
\* the answer it got, the buffers it handed to the decode function, its return value
Effect(c, polled, answer, decoded, result) ==
    [cache |-> c, polled |-> polled, answer |-> answer, decoded |-> decoded,
     result |-> result]

\* mutant of LoadHit: a cached Failure is dropped when it is served
LoadHit_EvictsFailure(c, uri) ==
    LET entry == c[uri]
    IN  IF entry.ok
        THEN Effect(c, <<>>, None, <<>>, Ok(ImageReady(entry.v)))
        ELSE Effect(Remove(c, uri), <<>>, None, <<>>, Err(entry.err))

\* load, cache hit
LoadHit(c, uri) ==
    LET entry == c[uri]
    IN  IF entry.ok
        THEN Effect(c, <<>>, None, <<>>, Ok(ImageReady(entry.v)))
        ELSE Effect(c, <<>>, None, <<>>, Err(entry.err))

\* mutant of LoadReady: only a decoded image is inserted, a decode error is not
LoadReady_DecodeFailureNotStored(c, uri, answer) ==
    LET bytes == answer.v.bytes
        mime == answer.v.mime
    IN  IF mime.some /\ ~is_supported_mime(mime.v)
        THEN Effect(c, <<uri>>, Some(answer), <<>>, Err(FormatNotSupported(Some(mime.v))))
        ELSE IF StartsWithLfs(bytes)
        THEN Effect(c, <<uri>>, Some(answer), <<>>,
                    Err(FormatNotSupported(Some(<<"git-lfs">>))))
        ELSE LET result == load_image_bytes(bytes)
             IN  IF result.ok
                 THEN Effect(Insert(c, uri, result), <<uri>>, Some(answer), <<bytes>>,
                             Ok(ImageReady(result.v)))
                 ELSE Effect(c, <<uri>>, Some(answer), <<bytes>>, Err(result.err))

\* mutant of LoadReady: the MIME failure is inserted before it is returned
LoadReady_MimeFailureStored(c, uri, answer) ==
    LET bytes == answer.v.bytes
        mime == answer.v.mime
    IN  IF mime.some /\ ~is_supported_mime(mime.v)
        THEN Effect(Insert(c, uri, Err(FormatNotSupported(Some(mime.v)))), <<uri>>,
                    Some(answer), <<>>, Err(FormatNotSupported(Some(mime.v))))
        ELSE IF StartsWithLfs(bytes)
        THEN Effect(c, <<uri>>, Some(answer), <<>>,
                    Err(FormatNotSupported(Some(<<"git-lfs">>))))
        ELSE LET result == load_image_bytes(bytes)
             IN  Effect(Insert(c, uri, result), <<uri>>, Some(answer), <<bytes>>,
                        IF result.ok THEN Ok(ImageReady(result.v)) ELSE Err(result.err))

\* mutant of LoadReady: the marker is looked for only after the decode function failed
LoadReady_LfsAfterDecode(c, uri, answer) ==
    LET bytes == answer.v.bytes
        mime == answer.v.mime
    IN  IF mime.some /\ ~is_supported_mime(mime.v)
        THEN Effect(c, <<uri>>, Some(answer), <<>>, Err(FormatNotSupported(Some(mime.v))))
        ELSE LET result == load_image_bytes(bytes)
             IN  IF ~result.ok /\ StartsWithLfs(bytes)
                 THEN Effect(c, <<uri>>, Some(answer), <<bytes>>,
                             Err(FormatNotSupported(Some(<<"git-lfs">>))))
                 ELSE Effect(Insert(c, uri, result), <<uri>>, Some(answer), <<bytes>>,
                             IF result.ok THEN Ok(ImageReady(result.v))
                             ELSE Err(result.err))

\* load, Ok(BytesPoll::Ready { bytes, mime, .. })
LoadReady(c, uri, answer) ==
    LET bytes == answer.v.bytes
        mime == answer.v.mime
    IN  IF mime.some /\ ~is_supported_mime(mime.v)
        THEN Effect(c, <<uri>>, Some(answer), <<>>, Err(FormatNotSupported(Some(mime.v))))
        ELSE IF StartsWithLfs(bytes)
        THEN Effect(c, <<uri>>, Some(answer), <<>>,
                    Err(FormatNotSupported(Some(<<"git-lfs">>))))
        ELSE LET result == load_image_bytes(bytes)
             IN  Effect(Insert(c, uri, result), <<uri>>, Some(answer), <<bytes>>,
                        IF result.ok THEN Ok(ImageReady(result.v)) ELSE Err(result.err))

\* mutant of LoadMiss: a Pending answer is memoized as a Failure entry
LoadMiss_PendingStored(c, uri, answer) ==
    IF answer.ok /\ answer.v.kind = "Ready" THEN LoadReady(c, uri, answer)
    ELSE IF answer.ok
    THEN Effect(Insert(c, uri, Err(Loading("pending"))), <<uri>>, Some(answer), <<>>,
                Ok(ImagePending(answer.v.size)))
    ELSE Effect(c, <<uri>>, Some(answer), <<>>, Err(answer.err))

\* mutant of LoadMiss: an error of the byte source is memoized as a Failure entry
LoadMiss_SourceErrorStored(c, uri, answer) ==
    IF answer.ok /\ answer.v.kind = "Ready" THEN LoadReady(c, uri, answer)
    ELSE IF answer.ok
    THEN Effect(c, <<uri>>, Some(answer), <<>>, Ok(ImagePending(answer.v.size)))
    ELSE Effect(Insert(c, uri, Err(answer.err)), <<uri>>, Some(answer), <<>>,
                Err(answer.err))

\* mutant of LoadMiss: a Pending answer is reported as a failure of the load
LoadMiss_PendingIsError(c, uri, answer) ==
    IF answer.ok /\ answer.v.kind = "Ready" THEN LoadReady(c, uri, answer)
    ELSE IF answer.ok
    THEN Effect(c, <<uri>>, Some(answer), <<>>, Err(Loading("bytes are pending")))
    ELSE Effect(c, <<uri>>, Some(answer), <<>>, Err(answer.err))

\* load, cache miss: match ctx.try_load_bytes(uri)
LoadMiss(c, uri, answer) ==
    IF answer.ok /\ answer.v.kind = "Ready" THEN LoadReady(c, uri, answer)
    ELSE IF answer.ok
    THEN Effect(c, <<uri>>, Some(answer), <<>>, Ok(ImagePending(answer.v.size)))
    ELSE Effect(c, <<uri>>, Some(answer), <<>>, Err(answer.err))

\* mutant of ExtensionGateRejects: the extension is checked for every scheme
ExtensionGateRejects_AnyScheme(uri) == ~is_supported_uri(uri)

\* the extension stage of load
ExtensionGateRejects(uri) == StartsWithFile(uri) /\ ~is_supported_uri(uri)

\* mutant of load: the cache is looked up under the URI as given, frame index included
load_LooksUpRawUri(c, uri0, answer) ==
    LET uri == NormalizeUri(uri0)
    IN  IF ExtensionGateRejects(uri)
        THEN Effect(c, <<>>, None, <<>>, Err(NotSupported))
        ELSE IF uri0 \in DOMAIN c THEN LoadHit(c, uri0)
        ELSE LoadMiss(c, uri, answer)

\* mutant of load: a cached Failure is tried again and its entry overwritten
load_RetriesFailure(c, uri0, answer) ==
    LET uri == NormalizeUri(uri0)
    IN  IF ExtensionGateRejects(uri)
        THEN Effect(c, <<>>, None, <<>>, Err(NotSupported))
        ELSE IF uri \in DOMAIN c /\ c[uri].ok THEN LoadHit(c, uri)
        ELSE LoadMiss(c, uri, answer)

\* ImageCrateLoader::load(ctx, uri, _), with `answer` what the byte source says if asked
load(c, uri0, answer) ==
    LET uri == NormalizeUri(uri0)
    IN  IF ExtensionGateRejects(uri)
        THEN Effect(c, <<>>, None, <<>>, Err(NotSupported))
        ELSE IF uri \in DOMAIN c THEN LoadHit(c, uri)
        ELSE LoadMiss(c, uri, answer)

\* mutant of forget: the frame index is stripped before the entry is removed
forget_StripsFrameIndex(c, uri) == Remove(c, NormalizeUri(uri))

\* ImageCrateLoader::forget
forget(c, uri) == Remove(c, uri)

\* mutant of forget_all: only the Success entries are removed
forget_all_KeepsFailures(c) ==
    LET kept == {k \in DOMAIN c : ~c[k].ok}
    IN  [k \in kept |-> c[k]]

\* ImageCrateLoader::forget_all
forget_all(c) == EmptyCache

\* LoadError::byte_size for the errors an entry can hold
ErrByteSize(err) ==
    CASE err.kind = "Loading" -> 24 + 16
      [] err.kind = "FormatNotSupported" -> 24 + 8
      [] OTHER -> 24

\* mutant of EntryByteSize: a Success counts its pixels, not their bytes
EntryByteSize_PixelCount(entry) ==
    IF entry.ok THEN entry.v.pixels ELSE ErrByteSize(entry.err)

EntryByteSize(entry) ==
    IF entry.ok THEN entry.v.pixels * SizeOfColor32 ELSE ErrByteSize(entry.err)

RECURSIVE SumOver(_, _)
SumOver(c, keys) ==
    IF keys = {} THEN 0
    ELSE LET k == CHOOSE x \in keys : TRUE
         IN  EntryByteSize(c[k]) + SumOver(c, keys \ {k})

\* ImageCrateLoader::byte_size
byte_size(c) == SumOver(c, DOMAIN c)

\* ---------------------------------------------------------------- threads
Threads == {"t1", "t2"}
NoThread == "none"

\* the URIs the threads call load and forget with, and the keys load caches them under
ConcUris ==
    {[scheme |-> "file://", ext |-> "png", frames |-> <<>>],
     [scheme |-> "file://", ext |-> "svg", frames |-> <<>>],
     [scheme |-> "https://", ext |-> "svg", frames |-> <<>>],
     [scheme |-> "https://", ext |-> "svg", frames |-> <<0>>]}
ConcKeys == {NormalizeUri(uri) : uri \in ConcUris}

\* a thread outside every call
Idle ==
    [pc |-> "idle", op |-> "none", uri |-> None, bytes |-> None, result |-> None,
     ret |-> None]

\* ---------------------------------------------------------- state machine
Init ==
    /\ cache = EmptyCache
    /\ before = EmptyCache
    /\ last = [op |-> "new", arg |-> <<>>, polled |-> <<>>, answer |-> None,
               decoded |-> <<>>, result |-> None]
    /\ lock = NoThread
    /\ th = [t \in Threads |-> Idle]
    /\ decodes = [k \in ConcKeys |-> 0]

\* a call of load while the byte source answers from `answers`
LoadWith(uri, answers) ==
    \E answer \in answers :
        LET e == load(cache, uri, answer)
        IN  /\ cache' = e.cache
            /\ before' = cache
            /\ last' = [op |-> "load", arg |-> <<uri>>, polled |-> e.polled,
                        answer |-> e.answer, decoded |-> e.decoded, result |-> e.result]
            /\ UNCHANGED concvars

Load(uri) == LoadWith(uri, BytesAnswers)

Forget(uri) ==
    /\ cache' = forget(cache, uri)
    /\ before' = cache
    /\ last' = [op |-> "forget", arg |-> <<uri>>, polled |-> <<>>, answer |-> None,
                decoded |-> <<>>, result |-> None]
    /\ UNCHANGED concvars

ForgetAll ==
    /\ cache' = forget_all(cache)
    /\ before' = cache
    /\ last' = [op |-> "forget_all", arg |-> <<>>, polled |-> <<>>, answer |-> None,
                decoded |-> <<>>, result |-> None]
    /\ UNCHANGED concvars

ByteSize ==
    /\ cache' = cache
    /\ before' = cache
    /\ last' = [op |-> "byte_size", arg |-> <<>>, polled |-> <<>>, answer |-> None,
                decoded |-> <<>>, result |-> Some(byte_size(cache))]
    /\ UNCHANGED concvars

Next ==
    \/ \E uri \in Uris : Load(uri)
    \/ \E uri \in Uris : Forget(uri)
    \/ ForgetAll
    \/ ByteSize

Spec == Init /\ [][Next]_vars

\* A byte source that never resolves one resource: every poll for StalledUri answers
\* Pending, polls for the other URIs answer anything.
StalledUri == [scheme |-> "https://", ext |-> "svg", frames |-> <<>>]
PendingAnswers == {Ok([kind |-> "Pending", size |-> s]) : s \in SizeHints}

LoadStalled(uri) ==
    /\ NormalizeUri(uri) = StalledUri
    /\ LoadWith(uri, PendingAnswers)

LoadOther(uri) ==
    /\ NormalizeUri(uri) # StalledUri
    /\ LoadWith(uri, BytesAnswers)

NextStalled ==
    \/ \E uri \in Uris : LoadStalled(uri)
    \/ \E uri \in Uris : LoadOther(uri)
    \/ \E uri \in Uris : Forget(uri)
    \/ ForgetAll
    \/ ByteSize

SpecStalled == Init /\ [][NextStalled]_vars

\* The format checks on their own: is_supported_uri and is_supported_mime applied to
\* URIs and MIME strings of every shape.
GateUris ==
    [scheme : {"", "file://", "http://", "https://"},
     ext : {"", "png", "PNG", "jpeg", "jpg", "gif", "svg", "avif", "txt"},
     frames : SeqsUpTo(FrameIndices, MaxFrameSuffix)]

GateMimes ==
    {<<"image/png">>, <<"image/jpeg">>, <<"image/gif">>, <<"image/avif">>,
     <<"image/svg+xml">>, <<"text/html">>, <<"image/png", "; charset=binary">>}
    \cup {<<m>> : m \in mimes_to_defer}
    \cup {<<m, "; charset=binary">> : m \in mimes_to_defer}

CheckUri(uri) ==
    /\ last' = [op |-> "is_supported_uri", arg |-> <<uri>>, polled |-> <<>>,
                answer |-> None, decoded |-> <<>>, result |-> Some(is_supported_uri(uri))]
    /\ UNCHANGED <<cache, before>>
    /\ UNCHANGED concvars

CheckMime(mime) ==
    /\ last' = [op |-> "is_supported_mime", arg |-> <<mime>>, polled |-> <<>>,
                answer |-> None, decoded |-> <<>>, result |-> Some(is_supported_mime(mime))]
    /\ UNCHANGED <<cache, before>>
    /\ UNCHANGED concvars

NextGate ==
    \/ \E uri \in GateUris : CheckUri(uri)
    \/ \E mime \in GateMimes : CheckMime(mime)

SpecGate == Init /\ [][NextGate]_vars

\* ------------------------------------------------------- concurrent calls
\* Several threads share one loader.  A call is cut at every point where
\* another thread can run: before the mutex is taken, and between the
\* steps a thread makes while it holds the mutex.
At(t, pc) == th[t].pc = pc

Goto(t, pc, fields) == th' = [th EXCEPT ![t] = [fields EXCEPT !.pc = pc]]

\* the call returns: the guard is dropped and the mutex is free again
Unlock(t) ==
    /\ At(t, "unlock")
    /\ lock' = NoThread
    /\ th' = [th EXCEPT ![t] = Idle]
    /\ UNCHANGED <<cache, decodes, before, last>>

\* mutant of Acquire: lock() does not wait for the holder
Acquire_DoesNotWait(t) ==
    /\ At(t, "lock")
    /\ lock' = t
    /\ Goto(t, th[t].op, th[t])
    /\ UNCHANGED <<cache, decodes, before, last>>

\* self.cache.lock(): blocks until no thread holds the mutex
Acquire(t) ==
    /\ At(t, "lock")
    /\ lock = NoThread
    /\ lock' = t
    /\ Goto(t, th[t].op, th[t])
    /\ UNCHANGED <<cache, decodes, before, last>>

\* a thread enters load(ctx, uri, _)
CallLoad(t, uri) ==
    /\ At(t, "idle")
    /\ Goto(t, "gate", [Idle EXCEPT !.op = "load", !.uri = Some(uri)])
    /\ UNCHANGED <<cache, lock, decodes, before, last>>

\* the frame index is stripped and the extension gate applied, without the mutex
Gate(t) ==
    LET uri == NormalizeUri(th[t].uri.v)
    IN  /\ At(t, "gate")
        /\ IF ExtensionGateRejects(uri)
           THEN th' = [th EXCEPT ![t] = Idle]
           ELSE Goto(t, "lock", [th[t] EXCEPT !.uri = Some(uri)])
        /\ UNCHANGED <<cache, lock, decodes, before, last>>

\* mutant of Lookup: on a miss the guard is dropped before the bytes are asked for
Lookup_ReleasesLock(t) ==
    LET uri == th[t].uri.v
    IN  /\ At(t, "load")
        /\ IF uri \in DOMAIN cache
           THEN /\ Goto(t, "unlock", [th[t] EXCEPT !.ret = Some(LoadHit(cache, uri).result)])
                /\ lock' = lock
           ELSE /\ Goto(t, "poll", th[t])
                /\ lock' = NoThread
        /\ UNCHANGED <<cache, decodes, before, last>>

\* cache.get(uri), under the mutex: a hit returns the entry, a miss goes on
Lookup(t) ==
    LET uri == th[t].uri.v
    IN  /\ At(t, "load")
        /\ IF uri \in DOMAIN cache
           THEN Goto(t, "unlock", [th[t] EXCEPT !.ret = Some(LoadHit(cache, uri).result)])
           ELSE Goto(t, "poll", th[t])
        /\ UNCHANGED <<cache, lock, decodes, before, last>>

\* ctx.try_load_bytes(uri) and the checks of its answer, still under the mutex:
\* every answer but admitted Ready bytes returns without an insert
Poll(t) ==
    /\ At(t, "poll")
    /\ \E answer \in BytesAnswers :
          LET e == LoadMiss(cache, th[t].uri.v, answer)
          IN  IF e.decoded = <<>>
              THEN Goto(t, "unlock", [th[t] EXCEPT !.ret = Some(e.result)])
              ELSE Goto(t, "decode", [th[t] EXCEPT !.bytes = Some(e.decoded[1])])
    /\ UNCHANGED <<cache, lock, decodes, before, last>>

\* load_image_bytes(&bytes), still under the mutex
Decode(t) ==
    /\ At(t, "decode")
    /\ Goto(t, "insert", [th[t] EXCEPT !.bytes = None,
                                       !.result = Some(load_image_bytes(th[t].bytes.v))])
    /\ decodes' = [decodes EXCEPT ![th[t].uri.v] = @ + 1]
    /\ UNCHANGED <<cache, lock, before, last>>

\* cache.insert(uri.into(), result.clone()), then the result is returned
InsertEntry(t) ==
    LET result == th[t].result.v
    IN  /\ At(t, "insert")
        /\ cache' = Insert(cache, th[t].uri.v, result)
        /\ Goto(t, "unlock",
                [th[t] EXCEPT !.result = None,
                              !.ret = Some(IF result.ok THEN Ok(ImageReady(result.v))
                                           ELSE Err(result.err))])
        /\ UNCHANGED <<lock, decodes, before, last>>

\* a thread enters forget(uri)
CallForget(t, uri) ==
    /\ At(t, "idle")
    /\ Goto(t, "lock", [Idle EXCEPT !.op = "forget", !.uri = Some(uri)])
    /\ UNCHANGED <<cache, lock, decodes, before, last>>

\* self.cache.lock().remove(uri)
RemoveEntry(t) ==
    LET uri == th[t].uri.v
    IN  /\ At(t, "forget")
        /\ cache' = forget(cache, uri)
        /\ decodes' = [k \in ConcKeys |->
                          IF k \in DOMAIN cache /\ k \notin DOMAIN cache'
                          THEN 0 ELSE decodes[k]]
        /\ Goto(t, "unlock", th[t])
        /\ UNCHANGED <<lock, before, last>>

\* a thread enters forget_all()
CallForgetAll(t) ==
    /\ At(t, "idle")
    /\ Goto(t, "lock", [Idle EXCEPT !.op = "forget_all"])
    /\ UNCHANGED <<cache, lock, decodes, before, last>>

\* self.cache.lock().clear()
ClearEntries(t) ==
    /\ At(t, "forget_all")
    /\ cache' = forget_all(cache)
    /\ decodes' = [k \in ConcKeys |->
                      IF k \in DOMAIN cache /\ k \notin DOMAIN cache'
                      THEN 0 ELSE decodes[k]]
    /\ Goto(t, "unlock", th[t])
    /\ UNCHANGED <<lock, before, last>>

\* a thread enters byte_size()
CallByteSize(t) ==
    /\ At(t, "idle")
    /\ Goto(t, "lock", [Idle EXCEPT !.op = "byte_size"])
    /\ UNCHANGED <<cache, lock, decodes, before, last>>

\* self.cache.lock().values().map(..).sum()
SumEntries(t) ==
    /\ At(t, "byte_size")
    /\ Goto(t, "unlock", [th[t] EXCEPT !.ret = Some(byte_size(cache))])
    /\ UNCHANGED <<cache, lock, decodes, before, last>>

NextConc ==
    \E t \in Threads :
        \/ \E uri \in ConcUris : CallLoad(t, uri)
        \/ Gate(t)
        \/ Acquire(t)
        \/ Lookup(t)
        \/ Poll(t)
        \/ Decode(t)
        \/ InsertEntry(t)
        \/ \E uri \in ConcUris : CallForget(t, uri)
        \/ RemoveEntry(t)
        \/ CallForgetAll(t)
        \/ ClearEntries(t)
        \/ CallByteSize(t)
        \/ SumEntries(t)
        \/ Unlock(t)

SpecConc == Init /\ [][NextConc]_vars

\* ------------------------------------------------- reading the last call
LastIsLoad == last.op = "load"
LastUri == last.arg[1]
\* the cache key load works with: the URI it was given, frame index stripped
LastKey == NormalizeUri(LastUri)
LastPolled == LastIsLoad /\ last.polled # <<>>
LastAnswerReady == LastPolled /\ last.answer.v.ok /\ last.answer.v.v.kind = "Ready"
LastAnswerPending == LastPolled /\ last.answer.v.ok /\ last.answer.v.v.kind = "Pending"
LastAnswerErr == LastPolled /\ ~last.answer.v.ok
LastBytes == last.answer.v.v.bytes
LastMime == last.answer.v.v.mime
LastMimeRejected == LastAnswerReady /\ LastMime.some /\ ~is_supported_mime(LastMime.v)
LastLfsRejected == LastAnswerReady /\ ~LastMimeRejected /\ StartsWithLfs(LastBytes)
LastDecoded == LastAnswerReady /\ ~LastMimeRejected /\ ~LastLfsRejected
\* what load returns for an entry it finds
EntryOutcome(entry) == IF entry.ok THEN Ok(ImageReady(entry.v)) ELSE Err(entry.err)

\* ---------------------------------------------------------------- claims

\* C1: when the cache holds an entry under the key of the URI load is called with, load
\* returns that entry (Success as Ready with the cached image, Failure as the cached
\* error), calls neither the byte source nor the decode function and leaves the cache as
\* it is; and no call other than forget and forget_all removes or changes an entry, so
\* this holds for every later load.
C1_CachedEntryServed ==
    /\ (LastIsLoad /\ LastKey \in DOMAIN before) =>
          /\ last.result = EntryOutcome(before[LastKey])
          /\ last.polled = <<>>
          /\ last.decoded = <<>>
          /\ cache = before
    /\ last.op \notin {"forget", "forget_all"} =>
          \A k \in DOMAIN before : k \in DOMAIN cache /\ cache[k] = before[k]

\* C1 witness: a load of a URI with a frame index is served a cached Failure
C1_Witness ==
    /\ LastIsLoad
    /\ LastUri.frames # <<>>
    /\ LastKey \in DOMAIN before
    /\ ~before[LastKey].ok
    /\ last.result = Err(before[LastKey].err)

\* C3: a load whose byte-source poll answers Pending returns Pending with the size the
\* byte source reported, decodes nothing and leaves the cache unchanged, with no entry
\* under the URI's key.
C3_PendingNotCached ==
    LastAnswerPending =>
        /\ last.result = Ok(ImagePending(last.answer.v.v.size))
        /\ last.decoded = <<>>
        /\ cache = before
        /\ LastKey \notin DOMAIN cache

\* C3 witness: a Pending poll with a size, while the cache holds other entries
C3_Witness ==
    /\ LastAnswerPending
    /\ last.answer.v.v.size = Some(16)
    /\ last.result = Ok(ImagePending(Some(16)))
    /\ cache # EmptyCache

\* C4: on a miss with a Ready answer that neither the MIME check nor the marker check
\* rejects, load hands the bytes to the decode function exactly once and stores the
\* result under the URI's key, changing no other entry: a decoded image is stored as
\* Success and returned as Ready with the same image, a decode error is stored as
\* Failure and returned as that same error.
C4_DecodeStored ==
    LastDecoded =>
        /\ last.decoded = <<LastBytes>>
        /\ LastKey \notin DOMAIN before
        /\ cache = Insert(before, LastKey, load_image_bytes(LastBytes))
        /\ cache[LastKey].ok => last.result = Ok(ImageReady(cache[LastKey].v))
        /\ ~cache[LastKey].ok => last.result = Err(cache[LastKey].err)

\* C4 witness: a decode failure was stored and returned
C4_Witness ==
    /\ LastDecoded
    /\ LastBytes = <<"JUNK">>
    /\ cache[LastKey] = Err(Loading("failed to decode"))
    /\ last.result = Err(Loading("failed to decode"))

\* the last call was a load that returned Ready
LastReturnedReady == LastIsLoad /\ last.result.ok /\ last.result.v.kind = "Ready"
\* the last call was a load that returned a decode failure, fresh or cached
LastReturnedDecodeFailure ==
    LastIsLoad /\ ~last.result.ok /\ (LastDecoded \/ LastKey \in DOMAIN before)
\* this step is a load of the URI the last call was given
LoadsSameUriAgain == last'.op = "load" /\ last'.arg = last.arg

\* C2 as claimed: after a load that returned Ready, or a failure by MIME, by the
\* large-file-pointer marker or by the decode function, the next load of the same URI
\* returns the identical outcome without calling the byte source.
C2_IdempotentAfterAnyFailure ==
    [][(/\ \/ LastReturnedReady
           \/ LastReturnedDecodeFailure
           \/ LastMimeRejected
           \/ LastLfsRejected
        /\ LoadsSameUriAgain)
        => (last'.result = last.result /\ last'.polled = <<>>)]_vars

\* C2 amended: after a load that returned Ready or a decode failure, the next load of
\* the same URI returns the identical outcome and calls neither the byte source nor the
\* decode function; after a load that returned format-not-supported (by MIME or by the
\* marker) nothing is cached and the next load of the same URI polls the byte source
\* again.
C2_IdempotentAfterStoredOutcome ==
    [][LoadsSameUriAgain =>
        /\ (LastReturnedReady \/ LastReturnedDecodeFailure) =>
              /\ last'.result = last.result
              /\ last'.polled = <<>>
              /\ last'.decoded = <<>>
        /\ (LastMimeRejected \/ LastLfsRejected) => last'.polled = <<LastKey>>]_vars

\* C2 witness: a load served Ready from the entry an earlier load stored
C2_Witness ==
    /\ LastReturnedReady
    /\ last.polled = <<>>
    /\ LastKey \in DOMAIN before
    /\ last.result = Ok(ImageReady(before[LastKey].v))

\* C5 as claimed: a Ready answer whose MIME is not supported makes load return
\* FormatNotSupported carrying that MIME and store it as the Failure entry of the URI.
C5_MimeFailureStored ==
    LastMimeRejected =>
        /\ last.result = Err(FormatNotSupported(Some(LastMime.v)))
        /\ LastKey \in DOMAIN cache
        /\ cache[LastKey] = Err(FormatNotSupported(Some(LastMime.v)))

\* C5 amended: a Ready answer whose MIME is not supported makes load return
\* FormatNotSupported carrying that MIME without decoding and without writing a cache
\* entry: the cache is unchanged and holds no entry under the URI's key.
C5_MimeFailureReturnedNotStored ==
    LastMimeRejected =>
        /\ last.result = Err(FormatNotSupported(Some(LastMime.v)))
        /\ last.decoded = <<>>
        /\ cache = before
        /\ LastKey \notin DOMAIN cache

\* C5 witness: image/svg+xml was rejected while the bytes would have decoded
C5_Witness ==
    /\ LastMimeRejected
    /\ LastMime = Some(<<"image/svg+xml">>)
    /\ load_image_bytes(LastBytes).ok
    /\ last.result = Err(FormatNotSupported(Some(<<"image/svg+xml">>)))

\* C6 as claimed: bytes that begin with the large-file-pointer marker, the MIME stage
\* not rejecting, make load return FormatNotSupported tagged git-lfs without decoding
\* and store it as the Failure entry of the URI.
C6_LfsFailureStored ==
    LastLfsRejected =>
        /\ last.result = Err(FormatNotSupported(Some(<<"git-lfs">>)))
        /\ last.decoded = <<>>
        /\ LastKey \in DOMAIN cache
        /\ cache[LastKey] = Err(FormatNotSupported(Some(<<"git-lfs">>)))

\* C6 amended: bytes that begin with the large-file-pointer marker, the MIME stage not
\* rejecting, make load return FormatNotSupported tagged git-lfs without decoding and
\* without writing a cache entry: the cache is unchanged and holds no entry under the
\* URI's key.
C6_LfsFailureReturnedNotStored ==
    LastLfsRejected =>
        /\ last.result = Err(FormatNotSupported(Some(<<"git-lfs">>)))
        /\ last.decoded = <<>>
        /\ cache = before
        /\ LastKey \notin DOMAIN cache

\* C6 witness: a pointer file served as image/png
C6_Witness ==
    /\ LastLfsRejected
    /\ LastMime = Some(<<"image/png">>)
    /\ last.result = Err(FormatNotSupported(Some(<<"git-lfs">>)))

\* C7: when the byte source answers with an error, load returns that error, decodes
\* nothing and leaves the cache unchanged with no entry under the URI's key, so that a
\* load of the same URI from this state polls the byte source again; and no cache
\* entry ever holds an error of the byte source.
C7_SourceErrorNotCached ==
    /\ LastAnswerErr =>
          /\ last.result = Err(last.answer.v.err)
          /\ last.decoded = <<>>
          /\ cache = before
          /\ LastKey \notin DOMAIN cache
          /\ \A answer \in BytesAnswers : load(cache, LastUri, answer).polled = <<LastKey>>
    /\ \A k \in DOMAIN cache : ~cache[k].ok => cache[k].err \notin SourceErrors

\* C7 witness: a byte-source error was returned while the cache holds a Failure entry
C7_Witness ==
    /\ LastAnswerErr
    /\ last.result = Err(Loading("bytes: connection reset"))
    /\ \E k \in DOMAIN cache : ~cache[k].ok

\* a file:// URI with an extension, which names no format the decoder reads
FileWithUnsupportedExtension(uri) ==
    /\ uri.scheme = "file://"
    /\ Extension(uri).some
    /\ LET ext == Extension(uri).v
       IN  ~(/\ ext.frames = <<>>
             /\ FromExtension(ToLowercase(ext.name)).some
             /\ ReadingEnabled(FromExtension(ToLowercase(ext.name)).v))

\* C8: a load whose URI (frame index stripped) starts with file:// and has an extension
\* the decoder does not support returns NotSupported, calls neither the byte source nor
\* the decode function and leaves the cache unchanged; the cache never holds an entry
\* under such a URI.
C8_FileExtensionRejected ==
    /\ (LastIsLoad /\ FileWithUnsupportedExtension(LastKey)) =>
          /\ last.result = Err(NotSupported)
          /\ last.polled = <<>>
          /\ last.decoded = <<>>
          /\ cache = before
    /\ \A k \in DOMAIN cache : ~FileWithUnsupportedExtension(k)

\* C8 witness: file://test.svg#0 was rejected while the cache holds entries
C8_Witness ==
    /\ LastIsLoad
    /\ LastUri = [scheme |-> "file://", ext |-> "svg", frames |-> <<0>>]
    /\ last.result = Err(NotSupported)
    /\ cache # EmptyCache

\* C9 as claimed: after forget(uri), the next load(uri) finds no cache entry and polls
\* the byte source, unless the extension gate rejects the URI.
C9_ForgetThenLoadPolls ==
    [][(/\ last.op = "forget"
        /\ LoadsSameUriAgain
        /\ ~ExtensionGateRejects(LastKey))
        => (LastKey \notin DOMAIN cache /\ last'.polled # <<>>)]_vars

\* C10: after forget_all the cache has no entry and byte_size is 0, and byte_size
\* returns 0 whenever it is called on a cache without entries.
C10_ForgetAllEmpties ==
    /\ last.op = "forget_all" => (DOMAIN cache = {} /\ byte_size(cache) = 0)
    /\ (last.op = "byte_size" /\ DOMAIN cache = {}) => last.result = Some(0)

\* C10 witness: forget_all emptied a cache of a Success and a Failure entry
C10_Witness ==
    /\ last.op = "forget_all"
    /\ \E k \in DOMAIN before : before[k].ok
    /\ \E k \in DOMAIN before : ~before[k].ok
    /\ byte_size(before) > 0
    /\ cache = EmptyCache

\* the bytes the entries of cache c occupy: 4 bytes for each pixel of a Success, the
\* declared size of the error of a Failure, summed over every URI that has an entry
RECURSIVE Footprint(_, _)
Footprint(c, uris) ==
    IF uris = {} THEN 0
    ELSE LET u == CHOOSE x \in uris : TRUE
             own == IF u \notin DOMAIN c THEN 0
                    ELSE IF c[u].ok THEN 4 * c[u].v.pixels
                    ELSE ErrByteSize(c[u].err)
         IN  own + Footprint(c, uris \ {u})

\* C11: byte_size returns the sum, over the entries the cache holds when it is called, of
\* pixel count times 4 for a Success and the error's declared size for a Failure, after
\* any sequence of calls; and byte_size leaves the cache as it is.
C11_ByteSizeIsFootprint ==
    last.op = "byte_size" =>
        /\ last.result = Some(Footprint(before, Uris))
        /\ DOMAIN before \subseteq Uris
        /\ cache = before

\* C11 witness: byte_size of a two-pixel Success and a decode Failure, after an eviction
C11_Witness ==
    /\ last.op = "byte_size"
    /\ \E k \in DOMAIN cache : cache[k] = Ok([pixels |-> 2])
    /\ \E k \in DOMAIN cache : ~cache[k].ok
    /\ Cardinality(DOMAIN cache) = 2
    /\ last.result = Some(8 + ErrByteSize(Loading("failed to decode")))

\* C12: in every call each URI's entry stays exactly as it was, or is removed, which
\* only forget and forget_all do, or is created where there was none, which only load
\* does; no call turns an entry into another entry.
C12_EntriesNeverMutated ==
    \A k \in DOMAIN before \cup DOMAIN cache :
        /\ (k \in DOMAIN before /\ k \in DOMAIN cache) => cache[k] = before[k]
        /\ (k \in DOMAIN before /\ k \notin DOMAIN cache) =>
              last.op \in {"forget", "forget_all"}
        /\ (k \notin DOMAIN before /\ k \in DOMAIN cache) => last.op = "load"

\* C12 witness: a load created a Success entry next to a Failure entry it left alone
C12_Witness ==
    /\ LastIsLoad
    /\ LastKey \notin DOMAIN before
    /\ LastKey \in DOMAIN cache
    /\ cache[LastKey].ok
    /\ \E k \in DOMAIN before : ~before[k].ok /\ cache[k] = before[k]

\* C14: every load returns in one call with a ready image, Pending or an error; while
\* the byte source answers Pending for a URI on every poll, every load of that URI polls
\* the byte source once, returns Pending with the reported size and decodes nothing, and
\* the URI never has a cache entry.
C14_StalledStaysPending ==
    /\ StalledUri \notin DOMAIN cache
    /\ LastIsLoad =>
          \/ ~last.result.ok
          \/ last.result.v.kind \in {"Ready", "Pending"}
    /\ (LastIsLoad /\ LastKey = StalledUri) =>
          /\ last.polled = <<StalledUri>>
          /\ last.answer.v \in PendingAnswers
          /\ last.result = Ok(ImagePending(last.answer.v.v.size))
          /\ last.decoded = <<>>
          /\ cache = before

\* C14 witness: the stalled URI, given with a frame index, polled again while other
\* URIs have entries
C14_Witness ==
    /\ LastIsLoad
    /\ LastUri = [scheme |-> "https://", ext |-> "svg", frames |-> <<0>>]
    /\ last.polled = <<StalledUri>>
    /\ last.result = Ok(ImagePending(Some(16)))
    /\ before # EmptyCache

\* the URI without its last frame-index suffix, if it has one
WithoutLastFrameIndex(uri) ==
    IF uri.frames = <<>> THEN uri
    ELSE [scheme |-> uri.scheme, ext |-> uri.ext,
          frames |-> SubSeq(uri.frames, 1, Len(uri.frames) - 1)]

\* a load of uri from the current state is served the entry under key, whatever the
\* byte source would answer, without polling and without decoding
ServedFrom(uri, key) ==
    \A answer \in BytesAnswers :
        load(cache, uri, answer) = Effect(cache, <<>>, None, <<>>, EntryOutcome(cache[key]))

C17_GateOnlyForFileUris ==
    (/\ LastIsLoad
     /\ LastKey.scheme # "file://"
     /\ FromExtension(ToLowercase(LastKey.ext)) = None) =>
        /\ last.result # Err(NotSupported)
        /\ LastKey \in DOMAIN before =>
              (last.polled = <<>> /\ last.result = EntryOutcome(before[LastKey]))
        /\ LastKey \notin DOMAIN before => last.polled = <<LastKey>>

\* C17 witness: https://test.svg missed the cache, was polled, decoded and stored
C17_Witness ==
    /\ LastIsLoad
    /\ LastUri = [scheme |-> "https://", ext |-> "svg", frames |-> <<>>]
    /\ last.polled = <<LastUri>>
    /\ last.decoded # <<>>
    /\ LastUri \in DOMAIN cache

\* the MIME string holds one of the three types whose decision is deferred
HoldsDeferredType(mime) ==
    \E i \in 1..Len(mime) :
        mime[i] \in {"application/octet-stream", "application/x-msdownload",
                     "application/force-download"}

\* C18: when the byte source answers Ready with no MIME string, or with one that holds
\* application/octet-stream, application/x-msdownload or application/force-download,
\* the MIME stage does not reject: bytes that begin with the large-file-pointer marker
\* are answered FormatNotSupported tagged git-lfs, any other bytes are handed to the
\* decode function and its result is the outcome.
C18_DeferredMimeNotRejected ==
    (LastAnswerReady /\ (~LastMime.some \/ HoldsDeferredType(LastMime.v))) =>
        IF StartsWithLfs(LastBytes)
        THEN /\ last.result = Err(FormatNotSupported(Some(<<"git-lfs">>)))
             /\ last.decoded = <<>>
        ELSE /\ last.decoded = <<LastBytes>>
             /\ last.result = EntryOutcome(load_image_bytes(LastBytes))

\* C18 witness: bytes served as application/octet-stream with a parameter were decoded
C18_Witness ==
    /\ LastAnswerReady
    /\ LastMime = Some(<<"application/octet-stream", "; charset=binary">>)
    /\ last.decoded = <<LastBytes>>
    /\ last.result.ok

\* C19: forget(uri) removes the entry whose key equals uri, if there is one, and leaves
\* every other entry as it was, so a forget of a URI without entry leaves the whole
\* cache as it was, and it returns nothing; load(uri) creates, changes or removes no
\* entry but the one under uri with its frame index stripped.
C19_ForgetAndLoadFrame ==
    /\ last.op = "forget" =>
          /\ LastUri \notin DOMAIN cache
          /\ DOMAIN cache = DOMAIN before \ {LastUri}
          /\ \A k \in DOMAIN cache : cache[k] = before[k]
          /\ LastUri \notin DOMAIN before => cache = before
          /\ last.result = None
    /\ LastIsLoad =>
          /\ DOMAIN cache \ {LastKey} = DOMAIN before \ {LastKey}
          /\ \A k \in DOMAIN cache \ {LastKey} : cache[k] = before[k]

\* C19 witness: forget of a URI with a frame index, which has no entry, left the entry
\* of its base URI and the rest of the cache alone
C19_Witness ==
    /\ last.op = "forget"
    /\ LastUri.frames # <<>>
    /\ LastUri \notin DOMAIN before
    /\ NormalizeUri(LastUri) \in DOMAIN before
    /\ Cardinality(DOMAIN cache) >= 2
    /\ cache = before

\* the URI "<scheme>test<.ext>" without frame index
TestUri(scheme, ext) == [scheme |-> scheme, ext |-> ext, frames |-> <<>>]

\* C15: is_supported_uri is true for every URI without extension; for a URI with an
\* extension it is true exactly when the lower-cased extension names a format the
\* decoder reads; https://test.png, test.jpeg, http://test.gif and file://test are
\* admitted and test.svg is not.
C15_ExtensionCheck ==
    last.op = "is_supported_uri" =>
        /\ LastUri.ext = "" => last.result = Some(TRUE)
        /\ LastUri.ext # "" =>
              last.result =
                  Some(/\ LastUri.frames = <<>>
                       /\ \E f \in {"Png", "Jpeg", "Gif", "Avif"} :
                             /\ FromExtension(ToLowercase(LastUri.ext)) = Some(f)
                             /\ ReadingEnabled(f))
        /\ LastUri \in {TestUri("https://", "png"), TestUri("", "jpeg"),
                        TestUri("http://", "gif"), TestUri("file://", "")} =>
              last.result = Some(TRUE)
        /\ LastUri = TestUri("", "svg") => last.result = Some(FALSE)
        /\ LastUri = TestUri("https://", "PNG") => last.result = Some(TRUE)

\* C15 witness: an upper-case extension of a format the decoder reads was admitted
C15_Witness ==
    /\ last.op = "is_supported_uri"
    /\ LastUri = TestUri("https://", "PNG")
    /\ last.result = Some(TRUE)

\* a thread between its cache lookup and its insert: asking for the bytes,
\* decoding them, or about to insert the result
InMissPath(t) == th[t].pc \in {"poll", "decode", "insert"}

\* a thread at a step that reads or writes the cache
UnderLock(t) ==
    th[t].pc \in {"load", "poll", "decode", "insert", "forget", "forget_all",
                  "byte_size", "unlock"}

\* C13: with several threads calling load, forget, forget_all and byte_size,
\* a thread that reads or writes the cache, asks the byte source or decodes
\* holds the mutex, so at most one thread is asking or decoding at any
\* instant, also for different URIs; and while one load is between its
\* lookup and its insert, every step of another thread is the entry into a
\* call, the extension gate or nothing, and the cache changes only by that
\* load's own insert.
C13_MissPathExclusive ==
    /\ [](\A t \in Threads : UnderLock(t) => lock = t)
    /\ [](\A t, u \in Threads : InMissPath(t) /\ InMissPath(u) => t = u)
    /\ [][\A t \in Threads :
            InMissPath(t) =>
                /\ \A u \in Threads \ {t} :
                      th'[u] # th[u] => th[u].pc \in {"idle", "gate"}
                /\ cache' # cache =>
                      /\ th[t].pc = "insert"
                      /\ th'[t].pc = "unlock"
                      /\ cache' = Insert(cache, th[t].uri.v, th[t].result.v)]_vars

\* one thread decodes for one URI while the other, in a forget_all or in a
\* load of a different URI, waits for the mutex, with an entry in the cache
C13_Witness ==
    \E t, u \in Threads :
        /\ t # u
        /\ th[t].pc = "decode"
        /\ th[u].pc = "lock"
        /\ th[u].op \in {"load", "forget_all"}
        /\ th[u].uri.some => th[u].uri.v # th[t].uri.v
        /\ cache # EmptyCache

\* C20: with the threads calling load for the same URI, between two evictions
\* of its key the decode function runs at most once for it: a key that has
\* been decoded has its entry, or the decoding thread is about to insert it,
\* and no thread asks the byte source or decodes for a key that has an entry.
C20_DecodedOncePerEviction ==
    /\ \A k \in ConcKeys : decodes[k] <= 1
    /\ \A k \in ConcKeys :
          decodes[k] = 1 =>
              \/ k \in DOMAIN cache
              \/ \E t \in Threads : th[t].pc = "insert" /\ th[t].uri.v = k
    /\ \A t \in Threads : InMissPath(t) => th[t].uri.v \notin DOMAIN cache

\* the key was decoded once, its entry is stored, and another load of the
\* same key, made through the frame URI, has found the entry under the mutex
C20_Witness ==
    \E t \in Threads, k \in ConcKeys :
        /\ decodes[k] = 1
        /\ k \in DOMAIN cache
        /\ th[t].op = "load"
        /\ th[t].pc = "unlock"
        /\ th[t].uri.v = k
        /\ th[t].ret = Some(LoadHit(cache, k).result)
        /\ \E u \in Threads \ {t} : th[u].op = "load" /\ th[u].pc = "lock" /\ th[u].uri.v = k

====
